---- MODULE Spec2Model ----
(***************************************************************************)
(* A model of cranelift_codegen_wasm: the WasmModule declaration           *)
(* bookkeeping (lib.rs), the operand classifier (optable.rs), the          *)
(* structured-CFG driver (lib.rs, compile_structured), the block lowerer   *)
(* (conversions/block.rs) and the value / instruction lowerer              *)
(* (conversions/inst.rs).                                                  *)
(*                                                                         *)
(* The translator is recursive; its call stack is the variable `stack`     *)
(* (one frame per pending call or pending builder operation) and every     *)
(* action pops one frame and runs that call up to its next nested call.    *)
(* Walrus' nested instruction-sequence builders are modelled by the flat   *)
(* sequence `code` with the structure markers loop / if / else / end: the  *)
(* closures given to loop_ and if_else run immediately and in order, so    *)
(* the flat order is the order of the nested sequences.                    *)
(*                                                                         *)
(* After a function has been translated, the emitted code is run by a     *)
(* small-step stack machine (the target VM of tests/utils.rs), and the     *)
(* source function by a reference interpreter of the source IR.            *)
(***************************************************************************)
EXTENDS Integers, Sequences, FiniteSets, TLC

\* ------------------------------------------------------------- bounds
\* Immediates of the generated source functions are drawn from 0..MaxImm.
MaxImm == 2
\* The target VM runs at most MaxExec steps of an emitted function.
MaxExec == 60
\* At most MaxDecls declare_function calls are made on a module.
MaxDecls == 2
\* data items declared in one module
MaxData == 3
\* the size of a zero-initialised data item
MaxSize == 2

\* ------------------------------------------------------ 32-bit integers
\* i32 values are kept in two's complement, as the integers -2^31..2^31-1.
I32Max == 2147483647
I32Min == -I32Max - 1

\* a + b modulo 2^32 (no intermediate leaves the 32-bit range)
WrapAdd(a, b) ==
  IF a >= 0 /\ b >= 0
    THEN IF b > I32Max - a THEN (a + I32Min) + (b + I32Min) ELSE a + b
  ELSE IF a < 0 /\ b < 0
    THEN IF b < I32Min - a THEN (a - I32Min) + (b - I32Min) ELSE a + b
  ELSE a + b

\* -b modulo 2^32
WrapNeg(b) == IF b = I32Min THEN I32Min ELSE 0 - b

\* a - b modulo 2^32
WrapSub(a, b) == IF b = I32Min THEN WrapAdd(WrapAdd(a, I32Max), 1) ELSE WrapAdd(a, 0 - b)

\* unsigned a <= b on two's complement values
LeU(a, b) ==
  IF a >= 0 THEN (b < 0 \/ a <= b) ELSE (b < 0 /\ a <= b)

\* ------------------------------------------------------------- source IR
\* Cranelift types
Bits(ty) ==
  CASE ty = "b1" -> 1
    [] ty = "i8" -> 8
    [] ty = "i16" -> 16
    [] ty \in {"i32", "f32", "b32"} -> 32
    [] OTHER -> 64

IsInt(ty) == ty \in {"i8", "i16", "i32", "i64"}
IsBool(ty) == ty \in {"b1", "b32", "b64"}
IsFloat(ty) == ty \in {"f32", "f64"}

\* Option::None of a value / block / local reference
NoValue == 0 - 1
NoBlock == 0 - 1

\* InstructionData: one record shape for every instruction format.
Inst(fmt, opcode, res, args, imm, cond, dest) ==
  [fmt |-> fmt, opcode |-> opcode, res |-> res, args |-> args,
   imm |-> imm, cond |-> cond, dest |-> dest]

Iconst(res, imm) == Inst("UnaryImm", "Iconst", res, <<>>, imm, "", NoBlock)
Binary(opcode, res, a, b) == Inst("Binary", opcode, res, <<a, b>>, 0, "", NoBlock)
Icmp(cond, res, a, b) == Inst("IntCompare", "Icmp", res, <<a, b>>, 0, cond, NoBlock)
IcmpImm(cond, res, a, imm) == Inst("IntCompareImm", "IcmpImm", res, <<a>>, imm, cond, NoBlock)
BinaryImm(opcode, res, a, imm) == Inst("BinaryImm64", opcode, res, <<a>>, imm, "", NoBlock)
Jump(dest, args) == Inst("Jump", "Jump", NoValue, args, 0, "", dest)
\* args[1] is the condition, the rest are the destination's arguments
Branch(opcode, c, dest, args) == Inst("Branch", opcode, NoValue, <<c>> \o args, 0, "", dest)
Return(args) == Inst("MultiAry", "Return", NoValue, args, 0, "", NoBlock)
AtomicRmw(res, a, b) == Inst("AtomicRmw", "AtomicRmw", res, <<a, b>>, 0, "", NoBlock)
AtomicCas(res, a, b, c) == Inst("AtomicCas", "AtomicCas", res, <<a, b, c>>, 0, "", NoBlock)

\* ------------------------------------------------------ relooper shapes
\* ShapedBlock<u32> of the relooper crate: Simple / Loop / Multiple.
NoShape == [kind |-> "None"]
Mode(m, id) == [m |-> m, id |-> id]
NoBranches == <<>>
Simple(label, branches, immediate, next) ==
  [kind |-> "Simple", label |-> label, branches |-> branches,
   immediate |-> immediate, next |-> next]
Loop(loop_id, inner, next) ==
  [kind |-> "Loop", loop_id |-> loop_id, inner |-> inner, next |-> next]
Handled(labels, inner) == [labels |-> labels, inner |-> inner]
Multiple(handled) == [kind |-> "Multiple", handled |-> handled]

\* ------------------------------------------------------ source functions
\* A function: its layout (blocks in order), each block's parameters and
\* instructions, the type of every value, and the shaped tree the relooper
\* returns for its control-flow graph.
Imms == 0..MaxImm

Types(seq) == [v \in 0..(Len(seq) - 1) |-> seq[v + 1]]

Func(name, layout, params, insts, vtype, shape) ==
  [name |-> name, layout |-> layout, params |-> params, insts |-> insts,
   vtype |-> vtype, shape |-> shape]

\* signature.returns: every function here returns one value, of the type of
\* the first value a return instruction returns
RECURSIVE FirstReturn(_, _)
FirstReturn(F, layout) ==
  IF layout = <<>> THEN NoValue
  ELSE LET insts == F.insts[Head(layout)]
           last == insts[Len(insts)]
       IN IF last.opcode = "Return" THEN last.args[1] ELSE FirstReturn(F, Tail(layout))

ReturnType(F) == F.vtype[FirstReturn(F, F.layout)]

Leaf(label) == Simple(label, NoBranches, NoShape, NoShape)

\* tests/mod.rs simple_const: v0 = iconst a; return v0
PConst(a) ==
  Func("const", <<0>>, 0 :> <<>>,
       0 :> <<Iconst(0, a), Return(<<0>>)>>,
       Types(<<"i32">>), Leaf(0))

\* tests/mod.rs test_simple_binop: v2 = iadd/isub (iconst a), (iconst b); return v2
PBinop(opcode, ty, a, b) ==
  Func("binop", <<0>>, 0 :> <<>>,
       0 :> <<Iconst(0, a), Iconst(1, b), Binary(opcode, 2, 0, 1), Return(<<2>>)>>,
       Types(<<ty, ty, ty>>), Leaf(0))

\* v2 = iadd v0, v1 is used by v3 and by v4: two operand slots
PMultiUse(a, b) ==
  Func("multiuse", <<0>>, 0 :> <<>>,
       0 :> <<Iconst(0, a), Iconst(1, b), Binary("Iadd", 2, 0, 1),
              Binary("Isub", 3, 2, 0), Binary("Iadd", 4, 3, 2), Return(<<4>>)>>,
       Types(<<"i32", "i32", "i32", "i32", "i32">>), Leaf(0))

\* v2 is used twice by v3, whose result nothing uses, and once by return
PDeadUse(a, b) ==
  Func("deaduse", <<0>>, 0 :> <<>>,
       0 :> <<Iconst(0, a), Iconst(1, b), Binary("Iadd", 2, 0, 1),
              Binary("Iadd", 3, 2, 2), Return(<<2>>)>>,
       Types(<<"i32", "i32", "i32", "i32">>), Leaf(0))

\* tests/mod.rs test_simple_control_flow: the counted loop
\*   block0: v0 = iconst 0; v1 = iconst n; v2 = iadd v0, v1; jump block1(v2)
\*   block1(v3): <leave to block3 on the loop condition>; jump block2
\*   block2: v5 = iconst 1; v6 = isub v3, v5; jump block1(v6)
\*   block3: return v3
\* header "brz_eq"  : v4 = icmp eq v3, v0; brz v4, block3   (the test's text)
\* header "brnz_eq" : v4 = icmp eq v3, v0; brnz v4, block3  (leave when i = 0)
\* header "brz_int" : brz v3, block3                       (leave when i = 0)
LoopHeader(header) ==
  CASE header = "brz_eq" -> <<Icmp("Equal", 4, 3, 0), Branch("Brz", 4, 3, <<>>), Jump(2, <<>>)>>
    [] header = "brnz_eq" -> <<Icmp("Equal", 4, 3, 0), Branch("Brnz", 4, 3, <<>>), Jump(2, <<>>)>>
    [] OTHER -> <<Branch("Brz", 3, 3, <<>>), Jump(2, <<>>)>>

\* Where the shaped tree puts the loop body: "imm", the header's immediate
\* child as a Simple; "multi", its immediate child as a one-armed Multiple;
\* "next", the header's next sibling, reached by a MergedBranch edge.
Variants == {"imm", "multi", "next"}

LoopShape(variant) ==
  LET body == Simple(2, 1 :> Mode("LoopContinue", 0), NoShape, NoShape)
      leave == 3 :> Mode("LoopBreak", 0)
      header == CASE variant = "imm" -> Simple(1, leave, body, NoShape)
                  [] variant = "multi" ->
                       Simple(1, leave, Multiple(<<Handled(<<2>>, body)>>), NoShape)
                  [] OTHER -> Simple(1, leave @@ 2 :> Mode("MergedBranch", 0), NoShape, body)
  IN Simple(0, NoBranches, Loop(0, header, Leaf(3)), NoShape)

PLoop(header, variant, n) ==
  Func("loop", <<0, 1, 2, 3>>,
       0 :> <<>> @@ 1 :> <<3>> @@ 2 :> <<>> @@ 3 :> <<>>,
       0 :> <<Iconst(0, 0), Iconst(1, n), Binary("Iadd", 2, 0, 1), Jump(1, <<2>>)>>
         @@ 1 :> LoopHeader(header)
         @@ 2 :> <<Iconst(5, 1), Binary("Isub", 6, 3, 5), Jump(1, <<6>>)>>
         @@ 3 :> <<Return(<<3>>)>>,
       Types(<<"i32", "i32", "i32", "i32", "b1", "i32", "i32">>),
       LoopShape(variant))

\* filetests brz.clif / brnz.clif with the argument replaced by a constant:
\*   block0: v0 = iconst.ty c; brz/brnz v0, block1; jump block2
\*   block1: v1 = iconst 1; return v1      block2: v2 = iconst 2; return v2
PCond(opcode, ty, c) ==
  Func("cond", <<0, 1, 2>>,
       0 :> <<>> @@ 1 :> <<>> @@ 2 :> <<>>,
       0 :> <<Iconst(0, c), Branch(opcode, 0, 1, <<>>), Jump(2, <<>>)>>
         @@ 1 :> <<Iconst(1, 1), Return(<<1>>)>>
         @@ 2 :> <<Iconst(2, 2), Return(<<2>>)>>,
       Types(<<ty, "i32", "i32">>),
       Simple(0, NoBranches,
              Multiple(<<Handled(<<1>>, Leaf(1)), Handled(<<2>>, Leaf(2))>>),
              NoShape))

\* An edge with two arguments:
\*   block0: v0 = iconst a; v1 = iconst b; jump block1(v0, v1)
\*   block1(v2, v3): "second": return v3     "diff": v4 = isub v2, v3; return v4
PEdge(use, a, b) ==
  Func("edge", <<0, 1>>,
       0 :> <<>> @@ 1 :> <<2, 3>>,
       0 :> <<Iconst(0, a), Iconst(1, b), Jump(1, <<0, 1>>)>>
         @@ 1 :> (IF use = "second" THEN <<Return(<<3>>)>>
                  ELSE <<Binary("Isub", 4, 2, 3), Return(<<4>>)>>),
       Types(<<"i32", "i32", "i32", "i32", "i32">>),
       Simple(0, NoBranches, Leaf(1), NoShape))

\* An atomic instruction at position `pos` (2 or 3) of the block, its result
\* used by return or by nothing:
PAtomic(fmt, pos, used, a) ==
  LET at == IF fmt = "AtomicCas" THEN AtomicCas(1, 0, 0, 0) ELSE AtomicRmw(1, 0, 0)
      ret == Return(<<IF used THEN 1 ELSE 2>>)
  IN Func("atomic", <<0>>, 0 :> <<>>,
          0 :> (IF pos = 2 THEN <<Iconst(0, a), at, Iconst(2, a), ret>>
                ELSE <<Iconst(0, a), Iconst(2, a), at, ret>>),
          Types(<<"i32", "i32", "i32">>), Leaf(0))

\* v1 = <opcode>_imm v0, 3 for an immediate-form binary opcode; return v1
PBinImm(opcode, a) ==
  Func("binimm", <<0>>, 0 :> <<>>,
       0 :> <<Iconst(0, a), BinaryImm(opcode, 1, 0, 3), Return(<<1>>)>>,
       Types(<<"i32", "i32">>), Leaf(0))

\* A function that returns its argument, the parameter of its entry block:
\*   block0(v0: ty): return v0
PParam(ty) ==
  Func("param", <<0>>, 0 :> <<0>>, 0 :> <<Return(<<0>>)>>, Types(<<ty>>), Leaf(0))

\* A branch on an integer comparison of a with 1:
\*   block0: v0 = iconst.ty a; v1 = iconst.ty 1;
\*           v2 = icmp cond v0, v1  or  v2 = icmp_imm cond v0, 1;
\*           brnz v2, block1; jump block2
\*   block1: v3 = iconst 1; return v3      block2: v4 = iconst 2; return v4
PCmp(opcode, cond, ty, a) ==
  Func("cmp", <<0, 1, 2>>,
       0 :> <<>> @@ 1 :> <<>> @@ 2 :> <<>>,
       0 :> <<Iconst(0, a), Iconst(1, 1),
              IF opcode = "Icmp" THEN Icmp(cond, 2, 0, 1) ELSE IcmpImm(cond, 2, 0, 1),
              Branch("Brnz", 2, 1, <<>>), Jump(2, <<>>)>>
         @@ 1 :> <<Iconst(3, 1), Return(<<3>>)>>
         @@ 2 :> <<Iconst(4, 2), Return(<<4>>)>>,
       Types(<<ty, ty, "b1", "i32", "i32">>),
       Simple(0, NoBranches,
              Multiple(<<Handled(<<1>>, Leaf(1)), Handled(<<2>>, Leaf(2))>>),
              NoShape))

\* A branch on a boolean, brz or brnz on the result of icmp eq v0, v1:
\*   block0: v0 = iconst a; v1 = iconst 1; v2 = icmp eq v0, v1;
\*           brz/brnz v2, block1; jump block2
\*   block1: v3 = iconst 1; return v3      block2: v4 = iconst 2; return v4
PBool(opcode, a) ==
  [PCmp("Icmp", "Equal", "i32", a) EXCEPT
     !.name = "bool",
     !.insts[0][4] = Branch(opcode, 2, 1, <<>>)]

\* A block whose instruction list goes on after its return or its jump
\* (define_function takes the function as it is; nothing verifies it):
\*   "return": block0: v0 = iconst a; v1 = iconst 2; return v0; return v1
\*   "jump":   block0: v0 = iconst a; v1 = iconst 2; jump block1; return v1
\*             block1: return v0
PTrail(term, a) ==
  IF term = "return"
    THEN Func("trail", <<0>>, 0 :> <<>>,
              0 :> <<Iconst(0, a), Iconst(1, 2), Return(<<0>>), Return(<<1>>)>>,
              Types(<<"i32", "i32">>), Leaf(0))
    ELSE Func("trail", <<0, 1>>, 0 :> <<>> @@ 1 :> <<>>,
              0 :> <<Iconst(0, a), Iconst(1, 2), Jump(1, <<>>), Return(<<1>>)>>
                @@ 1 :> <<Return(<<0>>)>>,
              Types(<<"i32", "i32">>),
              Simple(0, NoBranches, Leaf(1), NoShape))

\* A loop whose back edge is a conditional branch:
\*   block0: v0 = iconst n; jump block1(v0)
\*   block1(v1): v2 = iconst 1; v3 = isub v1, v2; brnz v3, block1(v3); jump block2
\*   block2: return v3
PDoWhile(n) ==
  Func("dowhile", <<0, 1, 2>>,
       0 :> <<>> @@ 1 :> <<1>> @@ 2 :> <<>>,
       0 :> <<Iconst(0, n), Jump(1, <<0>>)>>
         @@ 1 :> <<Iconst(2, 1), Binary("Isub", 3, 1, 2), Branch("Brnz", 3, 1, <<3>>),
                   Jump(2, <<>>)>>
         @@ 2 :> <<Return(<<3>>)>>,
       Types(<<"i32", "i32", "i32", "i32">>),
       Simple(0, NoBranches,
              Loop(0, Simple(1, 1 :> Mode("LoopContinue", 0) @@ 2 :> Mode("LoopBreak", 0),
                             NoShape, NoShape),
                   Leaf(2)),
              NoShape))

\* PCond on i32 with the two destinations in both maps of block0: they are
\* labels of the dispatch Multiple and have a branch mode of their own
PBoth(opcode, c) ==
  [PCond(opcode, "i32", c) EXCEPT
     !.name = "both",
     !.shape.branches = 1 :> Mode("MergedBranchIntoMulti", 0)
                          @@ 2 :> Mode("MergedBranchIntoMulti", 0)]

Conds == {"Equal", "NotEqual", "UnsignedLessThanOrEqual"}

ValueTypes == {"b1", "b32", "b64", "i8", "i16", "i32", "i64", "f32", "f64"}

\* A loop whose back-edge passes the header's own parameters in the other
\* order:
\*   block0: v0 = iconst a; v1 = iconst b; jump block1(v0, v1)
\*   block1(v3, v4): brnz v3, block2; jump block3
\*   block2: jump block1(v4, v3)
\*   block3: v5 = isub v3, v4; return v5
\* shaped as the counted loop with its body under a one-armed Multiple.
PSwap(a, b) ==
  Func("swap", <<0, 1, 2, 3>>,
       0 :> <<>> @@ 1 :> <<3, 4>> @@ 2 :> <<>> @@ 3 :> <<>>,
       0 :> <<Iconst(0, a), Iconst(1, b), Jump(1, <<0, 1>>)>>
         @@ 1 :> <<Branch("Brnz", 3, 2, <<>>), Jump(3, <<>>)>>
         @@ 2 :> <<Jump(1, <<4, 3>>)>>
         @@ 3 :> <<Binary("Isub", 5, 3, 4), Return(<<5>>)>>,
       Types(<<"i32", "i32", "i32", "i32", "i32", "i32">>),
       LoopShape("multi"))

\* A value used by both destinations of a branch:
\*   block0: v0 = iconst c; v1 = iconst a; v2 = iadd v1, v1;
\*           brz/brnz v0, block1; jump block2
\*   block1: return v2      block2: return v2
PShared(opcode, c, a) ==
  Func("shared", <<0, 1, 2>>,
       0 :> <<>> @@ 1 :> <<>> @@ 2 :> <<>>,
       0 :> <<Iconst(0, c), Iconst(1, a), Binary("Iadd", 2, 1, 1),
              Branch(opcode, 0, 1, <<>>), Jump(2, <<>>)>>
         @@ 1 :> <<Return(<<2>>)>>
         @@ 2 :> <<Return(<<2>>)>>,
       Types(<<"i32", "i32", "i32">>),
       Simple(0, NoBranches,
              Multiple(<<Handled(<<1>>, Leaf(1)), Handled(<<2>>, Leaf(2))>>),
              NoShape))

Headers == {"brz_eq", "brnz_eq", "brz_int"}

Functions ==
  {PConst(a) : a \in Imms}
  \cup {PBinop(o, t, a, b) : o \in {"Iadd", "Isub", "Imul"}, t \in {"i32", "i64"}, a \in Imms, b \in Imms}
  \cup {PMultiUse(a, b) : a \in Imms, b \in Imms}
  \cup {PDeadUse(a, b) : a \in Imms, b \in Imms}
  \cup {PLoop(h, m, n) : h \in Headers, m \in Variants, n \in Imms}
  \cup {PCond(o, t, c) : o \in {"Brz", "Brnz"}, t \in {"i8", "i16", "i32", "i64"}, c \in Imms}
  \cup {PEdge(u, a, b) : u \in {"second", "diff"}, a \in Imms, b \in Imms}
  \cup {PAtomic(f, p, u, a) : f \in {"AtomicCas", "AtomicRmw"}, p \in {2, 3}, u \in BOOLEAN, a \in Imms}
  \cup {PBinImm(o, a) : o \in {"IaddImm", "ImulImm"}, a \in Imms}
  \cup {PParam(t) : t \in ValueTypes}
  \cup {PDoWhile(n) : n \in Imms}
  \cup {PBoth(o, c) : o \in {"Brz", "Brnz"}, c \in Imms}
  \cup {PTrail(k, a) : k \in {"return", "jump"}, a \in Imms}
  \cup {PCmp(o, c, t, a) : o \in {"Icmp", "IcmpImm"}, c \in Conds, t \in {"i32", "i64"}, a \in Imms}
  \cup {PSwap(a, b) : a \in Imms, b \in Imms}
  \cup {PBool(o, a) : o \in {"Brz", "Brnz"}, a \in Imms}
  \cup {PShared(o, c, a) : o \in {"Brz", "Brnz"}, c \in Imms, a \in Imms}


\* ---------------------------------------------------- data-flow graph
Values(F) == DOMAIN F.vtype
BlocksOf(F) == {F.layout[i] : i \in 1..Len(F.layout)}

\* dfg.value_def: ValueDef::Param(block, _) or ValueDef::Result(inst, _);
\* an instruction is named by its block and its position in the block.
ValueDef(F, v) ==
  IF \E b \in BlocksOf(F) : \E i \in 1..Len(F.params[b]) : F.params[b][i] = v
    THEN LET b == CHOOSE b \in BlocksOf(F) : \E i \in 1..Len(F.params[b]) : F.params[b][i] = v
         IN [kind |-> "Param", block |-> b, pos |-> 0]
    ELSE LET b == CHOOSE b \in BlocksOf(F) : \E i \in 1..Len(F.insts[b]) : F.insts[b][i].res = v
             i == CHOOSE i \in 1..Len(F.insts[b]) : F.insts[b][i].res = v
         IN [kind |-> "Result", block |-> b, pos |-> i]

DefInst(F, v) == LET d == ValueDef(F, v) IN F.insts[d.block][d.pos]

\* ----------------------------------------------- conversions/ty.rs
\* wasm_of_cranelift; "todo" is the todo!() at the end of the function.
wasm_of_cranelift(ty) ==
  IF IsInt(ty) /\ Bits(ty) = 32 THEN "I32"
  ELSE IF IsInt(ty) /\ Bits(ty) = 64 THEN "I64"
  ELSE IF IsFloat(ty) /\ Bits(ty) = 32 THEN "F32"
  ELSE IF IsFloat(ty) /\ Bits(ty) = 64 THEN "F64"
  ELSE "todo"

\* ------------------------------------------------------- optable.rs
RECURSIVE ConcatArgs(_)
ConcatArgs(insts) ==
  IF insts = <<>> THEN <<>> ELSE Head(insts).args \o ConcatArgs(Tail(insts))

\* the `params` iterator of OperandTable::fill: every argument of every
\* instruction of every block, in layout order
RECURSIVE OperandSlots(_, _)
OperandSlots(F, layout) ==
  IF layout = <<>> THEN <<>>
  ELSE ConcatArgs(F.insts[Head(layout)]) \o OperandSlots(F, Tail(layout))

\* The classifier's tables; `ml` is the module's local arena (the type of
\* each local, a local's id being its index) and `ok` is FALSE once
\* wasm_of_cranelift has hit its todo!().
EmptyTable(ml) ==
  [value_uses |-> <<>>, rematerialize |-> {}, block_params |-> <<>>, ml |-> ml, ok |-> TRUE]

\* one iteration of the `for (value, _) in params` loop
FillSlot(F, t, v) ==
  LET def == ValueDef(F, v) IN
  IF ~t.ok THEN t
  ELSE IF def.kind = "Param" THEN
    LET ty == wasm_of_cranelift(F.vtype[v])
        local == Len(t.ml) + 1
        old == IF def.block \in DOMAIN t.block_params
                 THEN t.block_params[def.block] ELSE <<>>
    IN IF ty = "todo" THEN [t EXCEPT !.ok = FALSE]
       ELSE [t EXCEPT !.ml = Append(t.ml, ty),
                      !.block_params = (def.block :> ((v :> local) @@ old)) @@ t.block_params]
  ELSE IF DefInst(F, v).fmt \in {"Unary", "UnaryImm"} /\ DefInst(F, v).opcode = "Iconst" THEN
    [t EXCEPT !.rematerialize = t.rematerialize \cup {v}]
  ELSE
    LET n == IF v \in DOMAIN t.value_uses THEN t.value_uses[v] ELSE 0
    IN [t EXCEPT !.value_uses = (v :> (n + 1)) @@ t.value_uses]

RECURSIVE FillFrom(_, _, _)
FillFrom(F, t, slots) ==
  IF slots = <<>> THEN t ELSE FillFrom(F, FillSlot(F, t, Head(slots)), Tail(slots))

\* OperandTable::fill
Fill(F, ml) == FillFrom(F, EmptyTable(ml), OperandSlots(F, F.layout))

\* a lookup that still answers SingleUse for a value counted twice
ClassifyLate(t, v) ==
  IF v \in t.rematerialize THEN "Rematerialise"
  ELSE IF v \notin DOMAIN t.value_uses THEN "None"
  ELSE IF t.value_uses[v] <= 2 THEN "SingleUse"
  ELSE "NormalUse"

\* Operand::try_from_table; "None" makes from_table's unwrap panic
Classify(t, v) ==
  IF v \in t.rematerialize THEN "Rematerialise"
  ELSE IF v \notin DOMAIN t.value_uses THEN "None"
  ELSE IF t.value_uses[v] = 0 \/ t.value_uses[v] = 1 THEN "SingleUse"
  ELSE "NormalUse"

\* The iteration orders a hash map with keys S can have.
Perms(S) ==
  {s \in [1..Cardinality(S) -> S] : \A i, j \in 1..Cardinality(S) : s[i] = s[j] => i = j}

IterOrders(bp) ==
  {o \in [DOMAIN bp -> UNION {Perms(DOMAIN bp[b]) : b \in DOMAIN bp}] :
     \A b \in DOMAIN bp : o[b] \in Perms(DOMAIN bp[b])}

\* ------------------------------------------------------------- state
VARIABLES
  phase,          \* "module" | "compile" | "exec" | "interp" | "done" | "panic"
  err,            \* the panic message once phase = "panic"
  decls,          \* WasmModule.decls: the declared functions, id = index - 1
  functions,      \* WasmModule.functions: Cranelift id -> Walrus function id
  mfuncs,         \* WasmModule.module.funcs: the name of each Walrus function
  exports,        \* WasmModule.module.exports
  call,           \* the last declare_function call and how it ended
  data_objects,   \* WasmModule.decls: the number of declared data items, id = index - 1
  data,           \* WasmModule.data: Cranelift data id -> Walrus data id
  module_data,    \* WasmModule.module.data: the bytes of each Walrus data item, id = index
  data_call,      \* the last call on data items, the data it found and how it ended
  fn,             \* the source function handed to define_function
  operand_table,  \* OperandTable
  iter,           \* iteration order of each block_params map
  module_locals,  \* module.locals: the type of each local, id = index
  locals,         \* IndividualFunctionTranslator.locals: value -> local
  loop_to_block,  \* loop id -> instruction sequence id
  cursor,         \* FuncCursor position: the block and the last instruction returned
  stack,          \* the translator's pending calls, innermost first
  code,           \* the emitted function body
  nseq,           \* instruction sequence ids handed out to loops
  vm,             \* the target VM running the emitted body
  src             \* the reference interpreter running the source function

datavars == <<data_objects, data, module_data, data_call>>
modvars == <<decls, functions, mfuncs, exports, call, datavars>>
tvars == <<fn, operand_table, iter, module_locals, locals, loop_to_block,
           cursor, stack, code, nseq>>
vars == <<phase, err, modvars, tvars, vm, src>>

\* cranelift_module::Init, the initialiser of a DataDescription
DataInit(kind, size, contents) == [kind |-> kind, size |-> size, contents |-> contents]

Inits ==
  {DataInit("Uninitialized", 0, <<>>)}
  \cup {DataInit("Zeros", size, <<>>) : size \in 0..MaxSize}
  \cup {DataInit("Bytes", 0, contents) : contents \in {<<>>, <<7>>, <<7, 9>>}}

\* vec![0; size] and contents.to_vec()
InitValue(init) ==
  IF init.kind = "Zeros" THEN [i \in 1..init.size |-> 0] ELSE init.contents

\* a call on data items: the id it was given or returned, the module's data
\* before it and how it ended
DataCall(op, id, init, before, ret) ==
  [op |-> op, id |-> id, init |-> init, before |-> before, ret |-> ret]

NoInit == DataInit("", 0, <<>>)
NoDataCall == DataCall("", 0, NoInit, <<>>, "")

NoLocal == 0
NoFunc == Func("", <<>>, <<>>, <<>>, <<>>, NoShape)
Op(op, a) == [op |-> op, a |-> a]

VmIdle == [pc |-> 0, stack |-> <<>>, locals |-> <<>>, lbase |-> <<>>, status |-> "idle",
           result |-> 0, steps |-> 0]
SrcIdle == [block |-> NoBlock, pos |-> 0, env |-> <<>>, status |-> "idle", result |-> 0, steps |-> 0]
NoCall == [name |-> "", linkage |-> "", ret |-> "none"]

Init ==
  /\ phase = "module"
  /\ err = ""
  /\ decls = <<>>
  /\ functions = <<>>
  /\ mfuncs = <<>>
  /\ exports = <<>>
  /\ call = NoCall
  /\ data_objects = 0
  /\ data = <<>>
  /\ module_data = <<>>
  /\ data_call = NoDataCall
  /\ fn = NoFunc
  /\ operand_table = [value_uses |-> <<>>, rematerialize |-> {}, block_params |-> <<>>]
  /\ iter = <<>>
  /\ module_locals = <<>>
  /\ locals = <<>>
  /\ loop_to_block = <<>>
  /\ cursor = [block |-> NoBlock, pos |-> 0]
  /\ stack = <<>>
  /\ code = <<>>
  /\ nseq = 0
  /\ vm = VmIdle
  /\ src = SrcIdle

\* ------------------------------------------- lib.rs: declare_function
FuncNames == {"f", "g"}
Linkages == {"Import", "Local", "Preemptible", "Hidden", "Export"}

\* cranelift_module's Linkage::best, used when a name is declared again
BestLinkage(a, b) ==
  CASE a = "Export" -> "Export"
    [] a = "Hidden" -> IF b = "Export" THEN "Export" ELSE "Hidden"
    [] a = "Preemptible" -> IF b \in {"Export", "Hidden"} THEN b ELSE "Preemptible"
    [] a = "Local" -> IF b \in {"Export", "Hidden", "Preemptible"} THEN b ELSE "Local"
    [] OTHER -> b

DeclIndex(name) ==
  IF \E i \in 1..Len(decls) : decls[i].name = name
    THEN CHOOSE i \in 1..Len(decls) : decls[i].name = name
    ELSE 0

\* self.decls.declare_function(name, linkage, signature): merges into the
\* declaration of that name, or adds one; ids count from 0.
DeclsDeclareFunction(name, linkage) ==
  LET i == DeclIndex(name) IN
  IF i > 0 THEN [decls EXCEPT ![i].linkage = BestLinkage(decls[i].linkage, linkage)]
  ELSE Append(decls, [name |-> name, linkage |-> linkage])

ClifId(name) == LET i == DeclIndex(name) IN IF i > 0 THEN i - 1 ELSE Len(decls)

\* a match that creates a function for every linkage
LinkageArmAll(linkage) == IF linkage = "Export" THEN "export" ELSE "local"

\* the arms of `match linkage`
LinkageArm(linkage) ==
  CASE linkage = "Import" -> "todo"
    [] linkage = "Local" -> "local"
    [] linkage \in {"Preemptible", "Hidden"} -> "unimplemented"
    [] OTHER -> "export"

DeclareFunction(name, linkage) ==
  /\ phase = "module"
  /\ Len(mfuncs) < MaxDecls
  /\ decls' = DeclsDeclareFunction(name, linkage)
  /\ LET arm == LinkageArm(linkage)
         id == ClifId(name)
         local == Len(mfuncs) + 1
     IN IF arm \in {"todo", "unimplemented"}
          THEN /\ phase' = "panic"
               /\ err' = arm
               /\ call' = [name |-> name, linkage |-> linkage, ret |-> "panic"]
               /\ UNCHANGED <<functions, mfuncs, exports>>
          ELSE /\ mfuncs' = Append(mfuncs, name)
               /\ functions' = (id :> local) @@ functions
               /\ exports' = IF arm = "export"
                               THEN Append(exports, [name |-> name, func |-> local])
                               ELSE exports
               /\ call' = [name |-> name, linkage |-> linkage, ret |-> "ok"]
               /\ UNCHANGED <<phase, err>>
  /\ UNCHANGED <<datavars, tvars, vm, src>>

\* ------------------------------------------- lib.rs: define_function
\* The function is looked up, the operand table filled, and the shaped
\* tree of the relooper handed to compile_structured.  As in run_test of
\* tests/utils.rs, the function defined is the only one of its module and
\* was declared with Linkage::Export, so that it can be called afterwards.
CS(sh, lab) == [k |-> "cs", sh |-> sh, lab |-> lab]
BFP(cbt) == [k |-> "bfp", cbt |-> cbt]
TV(v) == [k |-> "tv", v |-> v]
BWI(block, pos) == [k |-> "bwi", block |-> block, pos |-> pos]
BIND(v) == [k |-> "bind", v |-> v]
EMIT(ops) == IF ops = <<>> THEN <<>> ELSE <<[k |-> "emit", ops |-> ops]>>
PANIC(msg) == [k |-> "panic", msg |-> msg]

DefineFunction(func_id, F) ==
  /\ phase = "module"
  /\ func_id \in DOMAIN functions
  /\ Len(mfuncs) = 1
  /\ \E i \in 1..Len(exports) : exports[i].func = functions[func_id]
  /\ LET t == Fill(F, module_locals) IN
     /\ fn' = F
     /\ operand_table' = [value_uses |-> t.value_uses, rematerialize |-> t.rematerialize,
                          block_params |-> t.block_params]
     /\ module_locals' = t.ml
     /\ iter' \in IterOrders(t.block_params)
     /\ IF t.ok
          THEN /\ phase' = "compile"
               /\ stack' = <<CS(F.shape, NoLocal)>>
               /\ err' = err
          ELSE /\ phase' = "panic"
               /\ stack' = <<>>
               /\ err' = "todo"
  /\ UNCHANGED <<modvars, locals, loop_to_block, cursor, code, nseq, vm, src>>

\* ------------------------------------------ lib.rs: compile_structured
Fail(msg) ==
  /\ phase' = "panic"
  /\ err' = msg

\* a Multiple none of whose labels is entered in locally_computed
MultiLabelsNone(m) == {}

\* every label of every arm of a Multiple
MultiLabels(m) ==
  UNION {{m.handled[i].labels[j] : j \in 1..Len(m.handled[i].labels)} : i \in 1..Len(m.handled)}

\* the guard chain of one arm: one `if` per label, each holding the arm
RECURSIVE ArmFrames(_, _, _)
ArmFrames(labels, inner, label) ==
  IF labels = <<>> THEN <<>>
  ELSE EMIT(<<Op("local.get", label), Op("i32.const", Head(labels)), Op("i32.eq", 0),
              Op("if", 0)>>)
       \o <<CS(inner, NoLocal)>>
       \o EMIT(<<Op("else", 0), Op("end", 0)>>)
       \o ArmFrames(Tail(labels), inner, label)

RECURSIVE MultiFrames(_, _)
MultiFrames(handled, label) ==
  IF handled = <<>> THEN <<>>
  ELSE ArmFrames(Head(handled).labels, Head(handled).inner, label)
       \o MultiFrames(Tail(handled), label)

NextFrames(next) == IF next.kind = "None" THEN <<>> ELSE <<CS(next, NoLocal)>>

CompileStructured ==
  /\ phase = "compile"
  /\ stack # <<>>
  /\ Head(stack).k = "cs"
  /\ LET f == Head(stack)
         sh == f.sh
         rest == Tail(stack)
     IN CASE sh.kind = "Simple" ->
               LET hasImm == sh.immediate.kind # "None"
                   local == Len(module_locals) + 1
                   lc == IF hasImm /\ sh.immediate.kind = "Multiple"
                           THEN [l \in MultiLabels(sh.immediate) |-> local]
                           ELSE <<>>
                   cbt == [from_relooper |-> sh.branches, locally_computed |-> lc]
               IN /\ module_locals' = IF hasImm THEN Append(module_locals, "I32")
                                      ELSE module_locals
                  /\ cursor' = [block |-> sh.label, pos |-> 0]
                  /\ stack' = <<BFP(cbt)>>
                              \o (IF hasImm THEN <<CS(sh.immediate, local)>> ELSE <<>>)
                              \o NextFrames(sh.next) \o rest
                  /\ UNCHANGED <<phase, err, code, loop_to_block, nseq>>
          [] sh.kind = "Loop" ->
               /\ nseq' = nseq + 1
               /\ code' = Append(code, Op("loop", nseq + 1))
               /\ loop_to_block' = (sh.loop_id :> (nseq + 1)) @@ loop_to_block
               /\ stack' = <<CS(sh.inner, NoLocal)>> \o EMIT(<<Op("end", 0)>>)
                           \o NextFrames(sh.next) \o rest
               /\ UNCHANGED <<phase, err, module_locals, cursor>>
          [] OTHER ->
               IF f.lab = NoLocal
                 THEN /\ Fail("unwrap")
                      /\ UNCHANGED <<stack, code, loop_to_block, nseq, module_locals, cursor>>
                 ELSE /\ stack' = MultiFrames(sh.handled, f.lab)
                                  \o EMIT(<<Op("unreachable", 0)>>) \o rest
                      /\ UNCHANGED <<phase, err, code, loop_to_block, nseq, module_locals, cursor>>
  /\ UNCHANGED <<modvars, fn, operand_table, iter, locals, vm, src>>

\* --------------------------------------- conversions/block.rs
\* the argument writes of an edge: `args.iter().zip(jump_to.iter())`
RECURSIVE ZipWrites(_, _, _)
ZipWrites(args, order, jump_to) ==
  IF args = <<>> \/ order = <<>> THEN <<>>
  ELSE <<TV(Head(args))>> \o EMIT(<<Op("local.set", jump_to[Head(order)])>>)
       \o ZipWrites(Tail(args), Tail(order), jump_to)

EdgeWrites(args, destination) ==
  IF destination \in DOMAIN operand_table.block_params
    THEN ZipWrites(args, iter[destination], operand_table.block_params[destination])
    ELSE <<>>

\* InstructionData::Jump: the frames of the arm and whether the walk of the
\* block goes on after it (the LoopBreak arm returns from build_from_pos)
JumpArm(inst, cbt) ==
  LET d == inst.dest
      writes == EdgeWrites(inst.args, d)
  IN IF d \in DOMAIN cbt.locally_computed
       THEN [frames |-> writes \o EMIT(<<Op("i32.const", d),
                                         Op("local.set", cbt.locally_computed[d])>>),
             goon |-> TRUE]
     ELSE IF d \in DOMAIN cbt.from_relooper
       THEN LET mode == cbt.from_relooper[d] IN
            CASE mode.m = "LoopContinue" ->
                   [frames |-> writes \o (IF mode.id \in DOMAIN loop_to_block
                                            THEN EMIT(<<Op("br", loop_to_block[mode.id])>>)
                                            ELSE <<PANIC("internal error")>>),
                    goon |-> TRUE]
              [] mode.m = "LoopBreak" -> [frames |-> writes, goon |-> FALSE]
              [] OTHER -> [frames |-> writes \o <<PANIC("todo")>>, goon |-> TRUE]
     ELSE [frames |-> writes, goon |-> TRUE]

\* the if/else of a conditional edge: the then arm holds `thenOps`, the else
\* arm the lowering of the rest of the block
IfElseRest(thenOps, cbt) ==
  EMIT(<<Op("if", 0)>> \o thenOps \o <<Op("else", 0)>>) \o <<BFP(cbt)>> \o EMIT(<<Op("end", 0)>>)

\* the normalisation appended for Brz / Brnz
Normalise(opcode, ty) ==
  IF opcode \notin {"Brz", "Brnz"} \/ IsBool(ty) THEN <<>>
  ELSE IF Bits(ty) = 64
    THEN <<Op("i64.const", 0), Op(IF opcode = "Brz" THEN "i64.eq" ELSE "i64.ne", 0)>>
    ELSE <<Op("i32.const", 0), Op(IF opcode = "Brz" THEN "i32.eq" ELSE "i32.ne", 0)>>

\* how the edge of a conditional branch is realised
BranchRealise(inst, cbt) ==
  LET d == inst.dest IN
  IF d \in DOMAIN cbt.from_relooper
    THEN LET mode == cbt.from_relooper[d] IN
         CASE mode.m = "LoopBreak" -> IfElseRest(<<>>, cbt)
           [] mode.m = "MergedBranch" ->
                IF DOMAIN cbt.locally_computed = {} THEN <<PANIC("unwrap")>>
                ELSE LET l == cbt.locally_computed[CHOOSE x \in DOMAIN cbt.locally_computed : TRUE]
                     IN IfElseRest(<<Op("i32.const", I32Max), Op("local.set", l)>>, cbt)
           [] OTHER -> <<PANIC("todo")>>
  ELSE IF d \in DOMAIN cbt.locally_computed
    THEN IF inst.opcode \in {"Brz", "Brnz"}
           THEN IfElseRest(<<Op("i32.const", d), Op("local.set", cbt.locally_computed[d])>>, cbt)
           ELSE <<PANIC("not yet supported")>>
  ELSE <<>>

\* InstructionData::Branch
BranchArm(inst, cbt) ==
  LET d == inst.dest
      negate == d \in DOMAIN cbt.from_relooper /\ cbt.from_relooper[d].m = "LoopBreak"
      arg == inst.args[1]
      ty == fn.vtype[arg]
      pre == IF ~negate THEN <<>>
             ELSE IF Bits(ty) = 64 THEN <<Op("i64.const", 0)>>
             ELSE IF Bits(ty) <= 32 THEN <<Op("i32.const", 0)>>
             ELSE <<>>
      post == IF ~negate THEN <<>>
              ELSE IF Bits(ty) = 64 THEN <<Op("i64.sub", 0)>>
              ELSE <<Op("i32.sub", 0)>>
  IN EdgeWrites(Tail(inst.args), d) \o EMIT(pre) \o <<TV(arg)>>
     \o EMIT(post \o Normalise(inst.opcode, ty)) \o BranchRealise(inst, cbt)

RECURSIVE ValueFrames(_)
ValueFrames(args) ==
  IF args = <<>> THEN <<>> ELSE <<TV(Head(args))>> \o ValueFrames(Tail(args))

\* a cursor that stays where it is
next_inst_stuck(c) == c

\* t.cursor.next_inst(): the cursor moves on by one instruction
next_inst(c) == [c EXCEPT !.pos = c.pos + 1]

\* one turn of `while let Some(next) = t.cursor.next_inst()`
BuildFromPos ==
  /\ phase = "compile"
  /\ stack # <<>>
  /\ Head(stack).k = "bfp"
  /\ LET cbt == Head(stack).cbt
         rest == Tail(stack)
         insts == fn.insts[cursor.block]
     IN IF cursor.pos >= Len(insts)
          THEN /\ stack' = rest
               /\ UNCHANGED cursor
          ELSE LET inst == insts[cursor.pos + 1]
                   again == <<BFP(cbt)>>
               IN /\ cursor' = next_inst(cursor)
                  /\ stack' =
                       CASE inst.fmt = "Jump" ->
                              LET arm == JumpArm(inst, cbt)
                              IN arm.frames \o (IF arm.goon THEN again ELSE <<>>) \o rest
                         [] inst.fmt = "MultiAry" ->
                              IF inst.opcode = "Return"
                                THEN ValueFrames(inst.args) \o EMIT(<<Op("return", 0)>>)
                                     \o again \o rest
                                ELSE <<PANIC("has not been implemented")>> \o rest
                         [] inst.fmt = "Branch" -> BranchArm(inst, cbt) \o again \o rest
                         [] OTHER -> again \o rest
  /\ UNCHANGED <<phase, err, modvars, fn, operand_table, iter, module_locals, locals,
                 loop_to_block, code, nseq, vm, src>>

\* --------------------------------------- conversions/cond.rs
\* wasm_of_cond; "todo" is a todo!() arm
wasm_of_cond(cond, bits_32) ==
  CASE cond = "Equal" -> IF bits_32 THEN "i32.eq" ELSE "i64.eq"
    [] cond = "UnsignedLessThanOrEqual" -> IF bits_32 THEN "i32.le_u" ELSE "i64.le_u"
    [] OTHER -> "todo"

\* --------------------------------------- conversions/inst.rs
\* i32_const(imm.bits() as i32): the low 32 bits of the immediate
AsI32(imm) == WrapAdd(imm, 0)

\* the binop of an iadd / isub, by the type of the left operand
BinaryOpFrames(opcode, ty) ==
  IF opcode \in {"Iadd", "Isub"}
    THEN IF ty = "i32" THEN EMIT(<<Op(IF opcode = "Iadd" THEN "i32.add" ELSE "i32.sub", 0)>>)
         ELSE IF ty = "i64" THEN EMIT(<<Op(IF opcode = "Iadd" THEN "i64.add" ELSE "i64.sub", 0)>>)
         ELSE <<PANIC("unreachable")>>
    ELSE <<PANIC("not yet supported")>>

\* InstructionData::UnaryImm
UnaryImmFrames(inst) ==
  IF inst.opcode = "Iconst"
    THEN IF inst.res = NoValue THEN <<PANIC("panic")>>
         ELSE LET ty == fn.vtype[inst.res] IN
              IF ~IsInt(ty) THEN <<PANIC("assert")>>
              ELSE IF Bits(ty) = 64 THEN EMIT(<<Op("i64.const", inst.imm)>>)
              ELSE IF Bits(ty) = 32 THEN EMIT(<<Op("i32.const", AsI32(inst.imm))>>)
              ELSE <<>>
    ELSE <<PANIC("not yet supported")>>

\* InstructionData::IntCompare
IntCompareFrames(inst) ==
  LET ty == fn.vtype[inst.args[1]] IN
  ValueFrames(inst.args)
  \o (IF ~IsInt(ty) THEN <<PANIC("assert")>>
      ELSE IF inst.opcode # "Icmp" THEN <<PANIC("not yet supported")>>
      ELSE IF inst.cond \in {"NotEqual", "Equal"}
        THEN IF Bits(ty) = 64
               THEN EMIT(<<Op(IF inst.cond = "Equal" THEN "i64.eq" ELSE "i64.ne", 0)>>)
             ELSE IF Bits(ty) = 32
               THEN EMIT(<<Op(IF inst.cond = "Equal" THEN "i32.eq" ELSE "i32.ne", 0)>>)
             ELSE <<PANIC("integers must be 32 or 64 bits")>>
      ELSE <<PANIC("todo")>>)

\* InstructionData::IntCompareImm
IntCompareImmFrames(inst) ==
  LET ty == fn.vtype[inst.args[1]]
      binop == wasm_of_cond(inst.cond, Bits(ty) = 32)
  IN IF ~IsInt(ty) THEN <<PANIC("assert")>>
     ELSE IF inst.opcode # "IcmpImm" THEN <<PANIC("not yet supported")>>
     ELSE <<TV(inst.args[1])>>
          \o (IF Bits(ty) = 64 THEN EMIT(<<Op("i64.const", inst.imm)>>)
              ELSE IF Bits(ty) = 32 THEN EMIT(<<Op("i32.const", AsI32(inst.imm))>>)
              ELSE <<PANIC("unimplemented")>>)
          \o (IF binop = "todo" THEN <<PANIC("todo")>> ELSE EMIT(<<Op(binop, 0)>>))

\* InstructionData::BinaryImm64
BinaryImm64Frames(inst) ==
  LET ty == fn.vtype[inst.args[1]] IN
  IF inst.opcode = "IaddImm"
    THEN IF ~IsInt(ty) THEN <<PANIC("assert")>>
         ELSE <<TV(inst.args[1])>>
              \o (IF Bits(ty) = 64
                    THEN EMIT(<<Op("i64.const", inst.imm), Op("i64.add", 0)>>)
                  ELSE IF Bits(ty) = 32
                    THEN EMIT(<<Op("i32.const", AsI32(inst.imm)), Op("i32.add", 0)>>)
                  ELSE <<PANIC("unimplemented")>>)
    ELSE <<>>

\* the arms of build_wasm_inst's match
InstFrames(inst) ==
  CASE inst.fmt \in {"AtomicCas", "AtomicRmw"} ->
         <<PANIC("this operation is not supported on WebAssembly")>>
    [] inst.fmt = "Binary" ->
         ValueFrames(inst.args) \o BinaryOpFrames(inst.opcode, fn.vtype[inst.args[1]])
    [] inst.fmt = "UnaryImm" -> UnaryImmFrames(inst)
    [] inst.fmt = "IntCompare" -> IntCompareFrames(inst)
    [] inst.fmt = "IntCompareImm" -> IntCompareImmFrames(inst)
    [] inst.fmt \in {"Jump", "Branch", "MultiAry"} -> <<PANIC("unreachable")>>
    [] inst.fmt = "BinaryImm64" -> BinaryImm64Frames(inst)
    [] OTHER -> <<PANIC("has not yet been implemented")>>

BuildWasmInst ==
  /\ phase = "compile"
  /\ stack # <<>>
  /\ Head(stack).k = "bwi"
  /\ stack' = InstFrames(fn.insts[Head(stack).block][Head(stack).pos]) \o Tail(stack)
  /\ UNCHANGED <<phase, err, modvars, fn, operand_table, iter, module_locals, locals,
                 loop_to_block, cursor, code, nseq, vm, src>>

\* translate_value up to its call of build_wasm_inst
TranslateValue ==
  /\ phase = "compile"
  /\ stack # <<>>
  /\ Head(stack).k = "tv"
  /\ LET v == Head(stack).v
         def == ValueDef(fn, v)
         rest == Tail(stack)
         bp == operand_table.block_params
         class == Classify(operand_table, v)
     IN IF def.kind = "Param"
          THEN IF def.block \in DOMAIN bp /\ v \in DOMAIN bp[def.block]
                 THEN /\ code' = Append(code, Op("local.get", bp[def.block][v]))
                      /\ stack' = rest
                      /\ UNCHANGED <<phase, err>>
                 ELSE /\ Fail("unwrap")
                      /\ UNCHANGED <<code, stack>>
        ELSE IF class = "None"
          THEN /\ Fail("unwrap")
               /\ UNCHANGED <<code, stack>>
        ELSE IF class = "NormalUse"
          THEN IF v \in DOMAIN locals
                 THEN /\ code' = Append(code, Op("local.get", locals[v]))
                      /\ stack' = rest
                      /\ UNCHANGED <<phase, err>>
                 ELSE /\ stack' = <<BWI(def.block, def.pos), BIND(v)>> \o rest
                      /\ UNCHANGED <<phase, err, code>>
        ELSE /\ stack' = <<BWI(def.block, def.pos)>> \o rest
             /\ UNCHANGED <<phase, err, code>>
  /\ UNCHANGED <<modvars, fn, operand_table, iter, module_locals, locals,
                 loop_to_block, cursor, nseq, vm, src>>

\* translate_value, Operand::NormalUse, after build_wasm_inst has returned:
\* the value gets a local of its own
BindLocal ==
  /\ phase = "compile"
  /\ stack # <<>>
  /\ Head(stack).k = "bind"
  /\ LET v == Head(stack).v
         ty == wasm_of_cranelift(fn.vtype[v])
         arg == Len(module_locals) + 1
     IN IF ty = "todo"
          THEN /\ Fail("todo")
               /\ UNCHANGED <<module_locals, locals, code, stack>>
          ELSE /\ module_locals' = Append(module_locals, ty)
               /\ locals' = (v :> arg) @@ locals
               /\ code' = code \o <<Op("local.set", arg), Op("local.get", arg)>>
               /\ stack' = Tail(stack)
               /\ UNCHANGED <<phase, err>>
  /\ UNCHANGED <<modvars, fn, operand_table, iter, loop_to_block, cursor, nseq, vm, src>>

\* a pending run of builder calls
EmitOps ==
  /\ phase = "compile"
  /\ stack # <<>>
  /\ Head(stack).k = "emit"
  /\ code' = code \o Head(stack).ops
  /\ stack' = Tail(stack)
  /\ UNCHANGED <<phase, err, modvars, fn, operand_table, iter, module_locals, locals,
                 loop_to_block, cursor, nseq, vm, src>>

\* panic!, todo!, unimplemented!, unreachable!, a failed assert! or unwrap
Panic ==
  /\ phase = "compile"
  /\ stack # <<>>
  /\ Head(stack).k = "panic"
  /\ Fail(Head(stack).msg)
  /\ UNCHANGED <<modvars, tvars, vm, src>>

\* ------------------------------------------------- target VM: validation
\* The module is validated when it is loaded (wasmtime::Module::new): the
\* operand stack of every instruction sequence is typed, the structured
\* constructs are all void.
OpType(op) == IF op \in {"i32.const", "i32.add", "i32.sub", "i32.eq", "i32.ne", "i32.le_u"}
                THEN "I32" ELSE "I64"
IsConst(op) == op \in {"i32.const", "i64.const"}
IsArith(op) == op \in {"i32.add", "i32.sub", "i64.add", "i64.sub"}
IsCompare(op) == op \in {"i32.eq", "i32.ne", "i32.le_u", "i64.eq", "i64.ne", "i64.le_u"}

\* the operand stack `os` (innermost first) of a frame that starts at height
\* `base` holds the types `want` (innermost first) on top; in dead code the
\* missing ones are granted
CanPop(os, c, want) ==
  LET avail == Len(os) - c.base
      n == IF avail < Len(want) THEN avail ELSE Len(want)
  IN /\ \A i \in 1..n : os[i] = want[i]
     /\ (n < Len(want) => c.dead)

Popped(os, c, want) ==
  LET avail == Len(os) - c.base
      n == IF avail < Len(want) THEN avail ELSE Len(want)
  IN SubSeq(os, n + 1, Len(os))

\* `cs` is the control stack (innermost first)
RECURSIVE ValidFrom(_, _, _, _, _)
ValidFrom(ops, lty, ret, os, cs) ==
  LET c == Head(cs)
      bottom == SubSeq(os, Len(os) - c.base + 1, Len(os))
      dead == <<[c EXCEPT !.dead = TRUE]>> \o Tail(cs)
  IN IF ops = <<>>
       THEN Len(cs) = 1 /\ Len(os) <= 1 /\ CanPop(os, c, <<ret>>)
     ELSE LET o == Head(ops)
              rest == Tail(ops)
          IN CASE IsConst(o.op) -> ValidFrom(rest, lty, ret, <<OpType(o.op)>> \o os, cs)
               [] IsArith(o.op) \/ IsCompare(o.op) ->
                    LET t == OpType(o.op) IN
                    /\ CanPop(os, c, <<t, t>>)
                    /\ ValidFrom(rest, lty, ret,
                                 <<IF IsCompare(o.op) THEN "I32" ELSE t>>
                                   \o Popped(os, c, <<t, t>>), cs)
               [] o.op = "local.get" ->
                    /\ o.a \in 1..Len(lty)
                    /\ ValidFrom(rest, lty, ret, <<lty[o.a]>> \o os, cs)
               [] o.op = "local.set" ->
                    /\ o.a \in 1..Len(lty)
                    /\ CanPop(os, c, <<lty[o.a]>>)
                    /\ ValidFrom(rest, lty, ret, Popped(os, c, <<lty[o.a]>>), cs)
               [] o.op = "if" ->
                    /\ CanPop(os, c, <<"I32">>)
                    /\ LET os2 == Popped(os, c, <<"I32">>)
                       IN ValidFrom(rest, lty, ret, os2,
                                    <<[kind |-> "if", base |-> Len(os2), dead |-> FALSE, id |-> 0]>> \o cs)
               [] o.op = "loop" ->
                    ValidFrom(rest, lty, ret, os,
                              <<[kind |-> "loop", base |-> Len(os), dead |-> FALSE, id |-> o.a]>> \o cs)
               [] o.op = "else" ->
                    /\ c.kind = "if"
                    /\ (c.dead \/ Len(os) = c.base)
                    /\ ValidFrom(rest, lty, ret, bottom,
                                 <<[c EXCEPT !.kind = "else", !.dead = FALSE]>> \o Tail(cs))
               [] o.op = "end" ->
                    /\ c.kind \in {"else", "loop"}
                    /\ (c.dead \/ Len(os) = c.base)
                    /\ ValidFrom(rest, lty, ret, bottom, Tail(cs))
               [] o.op = "br" ->
                    /\ \E i \in 1..Len(cs) : cs[i].kind = "loop" /\ cs[i].id = o.a
                    /\ ValidFrom(rest, lty, ret, bottom, dead)
               [] o.op = "return" ->
                    /\ CanPop(os, c, <<ret>>)
                    /\ ValidFrom(rest, lty, ret, bottom, dead)
               [] OTHER -> ValidFrom(rest, lty, ret, bottom, dead)

Valid(ops, lty, ret) ==
  ValidFrom(ops, lty, ret, <<>>, <<[kind |-> "func", base |-> 0, dead |-> FALSE, id |-> 0]>>)

\* lib.rs: define_function returns Ok once compile_structured has returned;
\* tests/utils.rs then loads the module and calls the function.
DefineFunctionReturn ==
  /\ phase = "compile"
  /\ stack = <<>>
  /\ phase' = "exec"
  /\ vm' = [pc |-> 1, stack |-> <<>>, locals |-> [l \in 1..Len(module_locals) |-> 0],
            lbase |-> <<>>,
            status |-> IF Valid(code, module_locals, wasm_of_cranelift(ReturnType(fn)))
                         THEN "running" ELSE "invalid",
            result |-> 0, steps |-> 0]
  /\ UNCHANGED <<err, modvars, tvars, src>>


\* -------------------------------------------------- target VM: execution
\* the position of the else (want = "else") or end that closes the construct
\* whose body starts at position i
RECURSIVE Closing(_, _, _, _)
Closing(ops, i, depth, want) ==
  IF i > Len(ops) THEN i
  ELSE IF ops[i].op \in {"if", "loop"} THEN Closing(ops, i + 1, depth + 1, want)
  ELSE IF ops[i].op = "end"
    THEN IF depth = 0 THEN i ELSE Closing(ops, i + 1, depth - 1, want)
  ELSE IF ops[i].op = "else" /\ depth = 0 /\ want = "else" THEN i
  ELSE Closing(ops, i + 1, depth, want)

LoopStart(ops, id) == CHOOSE i \in 1..Len(ops) : ops[i] = Op("loop", id)

\* the result of a binary operator on x (pushed first) and y
BinopResult(op, x, y) ==
  CASE op = "i32.add" -> WrapAdd(x, y)
    [] op = "i32.sub" -> WrapSub(x, y)
    [] op = "i64.add" -> x + y
    [] op = "i64.sub" -> x - y
    [] op \in {"i32.eq", "i64.eq"} -> IF x = y THEN 1 ELSE 0
    [] op \in {"i32.ne", "i64.ne"} -> IF x # y THEN 1 ELSE 0
    [] OTHER -> IF LeU(x, y) THEN 1 ELSE 0

\* one instruction of the emitted body; the operand stack has its top first
VmExec(m, ops) ==
  IF m.pc > Len(ops)
    THEN [m EXCEPT !.status = "returned", !.result = Head(m.stack)]
  ELSE LET o == ops[m.pc]
           go == [m EXCEPT !.pc = m.pc + 1, !.steps = m.steps + 1]
       IN CASE IsConst(o.op) -> [go EXCEPT !.stack = <<o.a>> \o m.stack]
            [] IsArith(o.op) \/ IsCompare(o.op) ->
                 [go EXCEPT !.stack = <<BinopResult(o.op, m.stack[2], m.stack[1])>>
                                       \o Tail(Tail(m.stack))]
            [] o.op = "local.get" -> [go EXCEPT !.stack = <<m.locals[o.a]>> \o m.stack]
            [] o.op = "local.set" ->
                 [go EXCEPT !.stack = Tail(m.stack), !.locals[o.a] = Head(m.stack)]
            [] o.op = "if" ->
                 [go EXCEPT !.stack = Tail(m.stack),
                            !.pc = IF Head(m.stack) # 0 THEN m.pc + 1
                                   ELSE Closing(ops, m.pc + 1, 0, "else") + 1]
            [] o.op = "else" -> [go EXCEPT !.pc = Closing(ops, m.pc + 1, 0, "end") + 1]
            [] o.op = "end" -> go
            [] o.op = "loop" -> [go EXCEPT !.lbase = (o.a :> Len(m.stack)) @@ m.lbase]
            [] o.op = "br" ->
                 [go EXCEPT !.pc = LoopStart(ops, o.a) + 1,
                            !.stack = SubSeq(m.stack, Len(m.stack) - m.lbase[o.a] + 1,
                                             Len(m.stack))]
            [] o.op = "return" -> [m EXCEPT !.status = "returned", !.result = Head(m.stack)]
            [] OTHER -> [m EXCEPT !.status = "trap"]

VmStep ==
  /\ phase = "exec"
  /\ vm.status = "running"
  /\ vm' = IF vm.steps >= MaxExec THEN [vm EXCEPT !.status = "fuel"] ELSE VmExec(vm, code)
  /\ UNCHANGED <<phase, err, modvars, tvars, src>>

\* ------------------------------------------- the reference interpreter
\* The source function run directly on its control-flow graph: the
\* independent interpreter the emitted module is compared with.
TypedAdd(ty, x, y) == IF ty = "i64" THEN x + y ELSE WrapAdd(x, y)
TypedSub(ty, x, y) == IF ty = "i64" THEN x - y ELSE WrapSub(x, y)

IntCC(cond, x, y) ==
  CASE cond = "Equal" -> x = y
    [] cond = "NotEqual" -> x # y
    [] OTHER -> LeU(x, y)

SrcKnown(inst) ==
  inst.opcode \in {"Iconst", "Iadd", "Isub", "IaddImm", "ImulImm", "Imul", "Icmp", "IcmpImm"}

\* the value an instruction with a result computes in environment e
SrcValue(F, inst, e) ==
  LET ty == F.vtype[inst.res] IN
  CASE inst.opcode = "Iconst" -> inst.imm
    [] inst.opcode = "Iadd" -> TypedAdd(ty, e[inst.args[1]], e[inst.args[2]])
    [] inst.opcode = "Isub" -> TypedSub(ty, e[inst.args[1]], e[inst.args[2]])
    [] inst.opcode = "IaddImm" -> TypedAdd(ty, e[inst.args[1]], inst.imm)
    [] inst.opcode = "ImulImm" -> e[inst.args[1]] * inst.imm
    [] inst.opcode = "Imul" -> e[inst.args[1]] * e[inst.args[2]]
    [] inst.opcode = "Icmp" ->
         IF IntCC(inst.cond, e[inst.args[1]], e[inst.args[2]]) THEN 1 ELSE 0
    [] inst.opcode = "IcmpImm" ->
         IF IntCC(inst.cond, e[inst.args[1]], inst.imm) THEN 1 ELSE 0
    [] OTHER -> 0

\* the environment after the edge into dest: every parameter of dest gets
\* the value of the argument at its position
EdgeEnv(F, e, dest, args) ==
  [v \in DOMAIN e |->
     IF \E i \in 1..Len(F.params[dest]) : F.params[dest][i] = v
       THEN e[args[CHOOSE i \in 1..Len(F.params[dest]) : F.params[dest][i] = v]]
       ELSE e[v]]

SrcExec(F, m) ==
  LET inst == F.insts[m.block][m.pos + 1]
      go == [m EXCEPT !.pos = m.pos + 1, !.steps = m.steps + 1]
      e == m.env
  IN CASE inst.fmt = "Jump" ->
            [go EXCEPT !.block = inst.dest, !.pos = 0,
                       !.env = EdgeEnv(F, e, inst.dest, inst.args)]
       [] inst.fmt = "Branch" ->
            IF (inst.opcode = "Brz") = (e[inst.args[1]] = 0)
              THEN [go EXCEPT !.block = inst.dest, !.pos = 0,
                              !.env = EdgeEnv(F, e, inst.dest, Tail(inst.args))]
              ELSE go
       [] inst.opcode = "Return" ->
            [m EXCEPT !.status = "returned", !.result = e[inst.args[1]]]
       [] OTHER ->
            IF ~SrcKnown(inst) THEN [m EXCEPT !.status = "unsupported"]
            ELSE [go EXCEPT !.env[inst.res] = SrcValue(F, inst, e)]

\* tests/utils.rs: the call of the emitted function has ended
SrcStart ==
  /\ phase = "exec"
  /\ vm.status # "running"
  /\ phase' = "interp"
  /\ src' = [block |-> fn.layout[1], pos |-> 0, env |-> [v \in Values(fn) |-> 0],
             status |-> "running", result |-> 0, steps |-> 0]
  /\ UNCHANGED <<err, modvars, tvars, vm>>

SrcStep ==
  /\ phase = "interp"
  /\ src.status = "running"
  /\ src' = IF src.steps >= MaxExec THEN [src EXCEPT !.status = "fuel"] ELSE SrcExec(fn, src)
  /\ UNCHANGED <<phase, err, modvars, tvars, vm>>

SrcDone ==
  /\ phase = "interp"
  /\ src.status # "running"
  /\ phase' = "done"
  /\ UNCHANGED <<err, modvars, tvars, vm, src>>

\* ------------------------------------------------------- specification
Next ==
  \/ \E name \in FuncNames, linkage \in Linkages : DeclareFunction(name, linkage)
  \/ \E func_id \in DOMAIN functions, F \in Functions : DefineFunction(func_id, F)
  \/ CompileStructured
  \/ BuildFromPos
  \/ TranslateValue
  \/ BuildWasmInst
  \/ BindLocal
  \/ EmitOps
  \/ Panic
  \/ DefineFunctionReturn
  \/ VmStep
  \/ SrcStart
  \/ SrcStep
  \/ SrcDone

Spec == Init /\ [][Next]_vars

\* compile_structured is synchronous: once define_function has called it,
\* the translator keeps taking its steps until it returns or panics
Translate ==
  \/ CompileStructured
  \/ BuildFromPos
  \/ TranslateValue
  \/ BuildWasmInst
  \/ BindLocal
  \/ EmitOps
  \/ Panic

FairSpec == Spec /\ WF_vars(Translate)

\* ------------------------------------------------- lib.rs: data items
\* declare_data: the name and the linkage are ignored; the item is declared
\* in decls only
DeclareData ==
  /\ phase = "module"
  /\ data_objects < MaxData
  /\ data_objects' = data_objects + 1
  /\ data_call' = DataCall("declare_data", data_objects, NoInit, module_data, "ok")
  /\ UNCHANGED <<phase, err, decls, functions, mfuncs, exports, call,
                 data, module_data, tvars, vm, src>>

\* declare_anonymous_data: the item is declared in decls, an empty passive
\* data item is added to the module, and the two ids are tied in `data`
DeclareAnonymousData ==
  /\ phase = "module"
  /\ data_objects < MaxData
  /\ LET clif_data_id == data_objects
         walrus_data_id == Len(module_data) + 1
     IN /\ data_objects' = data_objects + 1
        /\ module_data' = Append(module_data, <<>>)
        /\ data' = (clif_data_id :> walrus_data_id) @@ data
        /\ data_call' = DataCall("declare_anonymous_data", clif_data_id, NoInit,
                                 module_data, "ok")
  /\ UNCHANGED <<phase, err, decls, functions, mfuncs, exports, call, tvars, vm, src>>

\* define_data
DefineData(id, init) ==
  /\ phase = "module"
  /\ id \in 0..(data_objects - 1)
  /\ LET ended(ret) == DataCall("define_data", id, init, module_data, ret)
     IN IF id \notin DOMAIN data
          THEN /\ Fail("unwrap")
               /\ data_call' = ended("panic")
               /\ UNCHANGED module_data
        ELSE IF init.kind = "Uninitialized"
          THEN /\ Fail("todo")
               /\ data_call' = ended("panic")
               /\ UNCHANGED module_data
        ELSE /\ module_data' = [module_data EXCEPT ![data[id]] = InitValue(init)]
             /\ data_call' = ended("ok")
             /\ UNCHANGED <<phase, err>>
  /\ UNCHANGED <<decls, functions, mfuncs, exports, call, data_objects, data,
                 tvars, vm, src>>

DataNext ==
  \/ DeclareData
  \/ DeclareAnonymousData
  \/ \E id \in 0..(MaxData - 1), init \in Inits : DefineData(id, init)

\* a client that declares and defines data items only
DataSpec == Init /\ [][DataNext]_vars

\* ============================================================== claims
AllInsts(F) == UNION {{F.insts[b][i] : i \in 1..Len(F.insts[b])} : b \in BlocksOf(F)}

\* define_function has returned Ok
Translated == phase \in {"exec", "interp", "done"}

\* v is an operand of some instruction of F
Used(F, v) == \E inst \in AllInsts(F) : \E i \in 1..Len(inst.args) : inst.args[i] = v

SupportedOpcodes ==
  {"Iconst", "Iadd", "Isub", "IaddImm", "Icmp", "IcmpImm", "Jump", "Brz", "Brnz", "Return"}

\* only supported opcodes, on values of 32 or 64 bits (and boolean compare results)
Supported(F) ==
  /\ \A inst \in AllInsts(F) : inst.opcode \in SupportedOpcodes
  /\ \A v \in Values(F) : F.vtype[v] \in {"i32", "i64", "b1"}

\* C1: round trip: for a function of supported opcodes that the translator
\* accepts, the emitted module returns what the reference interpreter of
\* the source function returns.
C1_RoundTrip ==
  (phase = "done" /\ Supported(fn) /\ src.status = "returned")
    => (vm.status = "returned" /\ vm.result = src.result)

\* the lowering is about to meet a jump or a conditional branch
AtEdge ==
  /\ phase = "compile"
  /\ stack # <<>>
  /\ Head(stack).k = "bfp"
  /\ cursor.pos < Len(fn.insts[cursor.block])
  /\ fn.insts[cursor.block][cursor.pos + 1].fmt \in {"Jump", "Branch"}

\* C2: at every edge whose destination has k block parameters, the emitted
\* code writes exactly k locals: argument i goes to the local that holds the
\* destination's i-th parameter.
C2_EdgeWritesPositional ==
  AtEdge =>
    LET inst == fn.insts[cursor.block][cursor.pos + 1]
        d == inst.dest
        args == IF inst.fmt = "Branch" THEN Tail(inst.args) ELSE inst.args
        params == fn.params[d]
        writes == EdgeWrites(args, d)
        bp == operand_table.block_params
    IN /\ Len(writes) = 2 * Len(params)
       /\ \A i \in 1..Len(params) :
            /\ d \in DOMAIN bp
            /\ params[i] \in DOMAIN bp[d]
            /\ writes[2 * i - 1] = TV(args[i])
            /\ writes[2 * i] = [k |-> "emit", ops |-> <<Op("local.set", bp[d][params[i]])>>]

CountOps(o) == Cardinality({i \in 1..Len(code) : code[i] = o})

\* C3: a value with two or more uses that is not rematerialised is stored
\* into its local at most once, and read from it at least once per use.
C3_NormalUseLocal ==
  Translated =>
    \A v \in DOMAIN locals :
      /\ CountOps(Op("local.set", locals[v])) <= 1
      /\ CountOps(Op("local.get", locals[v])) >= operand_table.value_uses[v]

\* C4: a rematerialised value never gets a local, and each lowering of it
\* emits the constant of its definition.
C4_RematerialiseInline ==
  /\ \A v \in DOMAIN locals : v \notin operand_table.rematerialize
  /\ (phase = "compile" /\ stack # <<>> /\ Head(stack).k = "bwi") =>
       LET inst == fn.insts[Head(stack).block][Head(stack).pos] IN
       inst.res \in operand_table.rematerialize =>
         InstFrames(inst) \in {EMIT(<<Op("i32.const", inst.imm)>>),
                               EMIT(<<Op("i64.const", inst.imm)>>)}

\* C5: the translation of a function halts: once compile_structured has
\* been entered, it returns (no frame of the translator is left) or panics.
C5_TranslationHalts == (phase = "compile") ~> (phase = "panic" \/ stack = <<>>)

\* a translated counted loop: loop, if/else with the rest of the block in
\* the else arm, a value lowered through a local
C5_LoopTranslated ==
  /\ phase = "exec"
  /\ fn.name = "loop"
  /\ \E i \in 1..Len(code) : code[i].op = "else"
  /\ \E i \in 1..Len(code) : code[i].op = "br"

\* a conditional branch on an integer of 32 or 64 bits
IntBranch(F) ==
  \E inst \in AllInsts(F) : inst.fmt = "Branch" /\ F.vtype[inst.args[1]] \in {"i32", "i64"}

\* C6: a function that branches on an integer condition reaches the block
\* the source reaches: the destination when the condition is zero (brz) or
\* non-zero (brnz), the rest of the block otherwise.
C6_IntegerBranch ==
  (phase = "done" /\ Supported(fn) /\ IntBranch(fn) /\ src.status = "returned")
    => (vm.status = "returned" /\ vm.result = src.result)

\* C7: the counted loop is translated, and the emitted function ends and
\* returns 0.
C7_CountedLoopReturnsZero ==
  (fn.name = "loop" /\ phase \in {"done", "panic"})
    => (phase = "done" /\ vm.status = "returned" /\ vm.result = 0)

HasAtomic(F) == \E inst \in AllInsts(F) : inst.fmt \in {"AtomicCas", "AtomicRmw"}

\* C8: the translation of a function that holds an atomic instruction fails.
C8_AtomicsFail ==
  (phase \notin {"module", "compile"} /\ HasAtomic(fn)) => phase = "panic"

\* an instruction the lowering has no code for
NoLowering(F, inst) ==
  \/ inst.fmt = "BinaryImm64" /\ inst.opcode # "IaddImm"
  \/ inst.fmt = "Binary" /\ inst.opcode \notin {"Iadd", "Isub"}
  \/ inst.opcode = "Iconst" /\ Bits(F.vtype[inst.res]) \notin {32, 64}

\* C9: the translation of a function that uses the result of an instruction
\* without a lowering fails.
C9_UnimplementedFails ==
  (phase \notin {"module", "compile"}
     /\ \E inst \in AllInsts(fn) : NoLowering(fn, inst) /\ Used(fn, inst.res))
    => phase = "panic"

Reserved == {"Import", "Preemptible", "Hidden"}

\* C10: a declare_function with Import, Preemptible or Hidden linkage
\* panics, and a function, a function id or an export is only ever added by
\* a declaration with Local or Export linkage.
C10_ReservedLinkagesFail ==
  /\ [](call.linkage \in Reserved => (call.ret = "panic" /\ phase = "panic"))
  /\ [][(mfuncs' # mfuncs \/ functions' # functions \/ exports' # exports)
          => (call'.linkage \in {"Local", "Export"} /\ call'.ret = "ok")]_vars

\* a reserved linkage has been refused in a module that holds a function
C10_HiddenRefused ==
  /\ call.linkage \in Reserved
  /\ call.ret = "panic"
  /\ Len(mfuncs) = 1
  /\ Len(decls) = 2

\* C11: after successful declare_function calls, every declared function
\* has a function of the module mapped from its Cranelift id, and that
\* function is listed in the exports exactly when the function was declared
\* with Export linkage.
C11_ExportedIffExport ==
  call.ret # "panic" =>
    \A i \in 1..Len(decls) :
      /\ (i - 1) \in DOMAIN functions
      /\ functions[i - 1] \in 1..Len(mfuncs)
      /\ (\E e \in 1..Len(exports) : exports[e].func = functions[i - 1])
           <=> (decls[i].linkage = "Export")

\* the walk of build_from_pos has just gone past the instruction at the
\* cursor and is about to ask for the next one
WalkedPast(inst) ==
  /\ phase = "compile"
  /\ stack # <<>>
  /\ Head(stack).k = "bfp"
  /\ cursor.pos \in 1..Len(fn.insts[cursor.block])
  /\ inst = fn.insts[cursor.block][cursor.pos]

\* the ops the instruction lowerer emits last for an instruction, if any
LastOps(inst) ==
  LET frames == InstFrames(inst) IN
  IF frames # <<>> /\ frames[Len(frames)].k = "emit" THEN frames[Len(frames)].ops ELSE <<>>

\* C12: every non-terminator instruction is handed to the instruction
\* lowerer when the walk of its block reaches it: once the walk has gone
\* past an instruction that has a lowering, the ops of that lowering are
\* the last ones of the emitted sequence (so the ops of the instructions of
\* a block come in the order of the instructions).
C12_DispatchInOrder ==
  \A inst \in AllInsts(fn) :
    (WalkedPast(inst) /\ inst.fmt \notin {"Jump", "Branch", "MultiAry"} /\ LastOps(inst) # <<>>)
      => /\ Len(code) >= Len(LastOps(inst))
         /\ SubSeq(code, Len(code) - Len(LastOps(inst)) + 1, Len(code)) = LastOps(inst)

\* every Simple block of a shaped tree, as compile_structured visits them
RECURSIVE Simples(_)
Simples(sh) ==
  CASE sh.kind = "Simple" -> {sh} \cup Simples(sh.immediate) \cup Simples(sh.next)
    [] sh.kind = "Loop" -> Simples(sh.inner) \cup Simples(sh.next)
    [] sh.kind = "Multiple" -> UNION {Simples(sh.handled[i].inner) : i \in 1..Len(sh.handled)}
    [] OTHER -> {}

\* the destinations CanBranchTo knows for a Simple block: the keys of
\* from_relooper and of locally_computed
Destinations(sh) ==
  DOMAIN sh.branches
    \cup (IF sh.immediate.kind = "Multiple" THEN MultiLabels(sh.immediate) ELSE {})

IsEdge(inst) == inst.fmt \in {"Jump", "Branch"}

\* (a) an edge into a block one of whose parameters has no local
MissingParamLocal(F, bp) ==
  \E inst \in AllInsts(F) :
    /\ IsEdge(inst)
    /\ \E i \in 1..Len(F.params[inst.dest]) :
         ~(inst.dest \in DOMAIN bp /\ F.params[inst.dest][i] \in DOMAIN bp[inst.dest])

\* (b) an edge whose destination is in neither map of its block
MissingMode(F) ==
  \E sh \in Simples(F.shape) :
    \E i \in 1..Len(F.insts[sh.label]) :
      IsEdge(F.insts[sh.label][i]) /\ F.insts[sh.label][i].dest \notin Destinations(sh)

\* (c) an operand that is a block parameter without a local
MissingOperandLocal(F, bp) ==
  \E inst \in AllInsts(F) : \E i \in 1..Len(inst.args) :
    LET def == ValueDef(F, inst.args[i]) IN
    /\ def.kind = "Param"
    /\ ~(def.block \in DOMAIN bp /\ inst.args[i] \in DOMAIN bp[def.block])

\* C13: a translation that meets an integrity violation does not complete
\* normally: define_function returns Ok only for a function in which every
\* parameter of every edge destination has a local, every edge destination
\* is in from_relooper or locally_computed of its block, and every block
\* parameter used as an operand has a local.
C13_IntegrityFatal ==
  Translated =>
    /\ ~MissingParamLocal(fn, operand_table.block_params)
    /\ ~MissingMode(fn)
    /\ ~MissingOperandLocal(fn, operand_table.block_params)

\* C14: before an outgoing edge of a block is lowered, block_params holds a
\* local for every parameter of every block of the function, used as an
\* operand or not.
C14_EveryParamHasLocal ==
  AtEdge =>
    \A b \in BlocksOf(fn) : \A i \in 1..Len(fn.params[b]) :
      /\ b \in DOMAIN operand_table.block_params
      /\ fn.params[b][i] \in DOMAIN operand_table.block_params[b]
      /\ operand_table.block_params[b][fn.params[b][i]] \in 1..Len(module_locals)

\* what a builder op takes from the operand stack and what it leaves on it
Pops(op) ==
  IF IsArith(op) \/ IsCompare(op) THEN 2
  ELSE IF op \in {"local.set", "if", "return"} THEN 1
  ELSE 0

Pushes(op) ==
  IF IsConst(op) \/ IsArith(op) \/ IsCompare(op) \/ op = "local.get" THEN 1 ELSE 0

\* The operand stack of the instruction sequences of `ops`, from position i
\* on: `depth` is the depth in the sequence being walked, `ended` tells that
\* its last op was return / br / unreachable, and `outer` holds the depths
\* at which the enclosing sequences go on after their if or loop.
RECURSIVE Balanced(_, _, _, _, _)
Balanced(ops, i, depth, ended, outer) ==
  IF i > Len(ops) THEN outer = <<>> /\ (ended \/ depth = 0)
  ELSE LET op == ops[i].op IN
       CASE op \in {"if", "loop"} ->
              /\ depth >= Pops(op)
              /\ Balanced(ops, i + 1, 0, FALSE, <<depth - Pops(op)>> \o outer)
         [] op = "else" ->
              /\ (ended \/ depth = 0)
              /\ Balanced(ops, i + 1, 0, FALSE, outer)
         [] op = "end" ->
              /\ (ended \/ depth = 0)
              /\ outer # <<>>
              /\ Balanced(ops, i + 1, Head(outer), FALSE, Tail(outer))
         [] op \in {"return", "br", "unreachable"} ->
              /\ depth >= Pops(op)
              /\ Balanced(ops, i + 1, 0, TRUE, outer)
         [] OTHER ->
              /\ depth >= Pops(op)
              /\ Balanced(ops, i + 1, depth - Pops(op) + Pushes(op), FALSE, outer)

\* C15: in the body of a translated function every instruction sequence
\* (the body, a loop body, an if arm, an else arm) starts with an empty
\* operand stack and ends with one unless it ends in return, br or
\* unreachable, and no op takes a value from an empty stack.
C15_StackBalanced == Translated => Balanced(code, 1, 0, FALSE, <<>>)

\* C16: the type of the local of a block parameter is the image of the
\* parameter's type under the type map: I32 / I64 for an integer or a
\* boolean of width 32 / 64, F32 / F64 for a float of width 32 / 64; the
\* translation of a function with an operand of any other type fails.
C16_TypeMap ==
  phase # "module" =>
    \A b \in BlocksOf(fn) : \A i \in 1..Len(fn.params[b]) :
      LET v == fn.params[b][i]
          ty == fn.vtype[v]
          bp == operand_table.block_params
      IN Used(fn, v) =>
           IF Bits(ty) \in {32, 64}
             THEN /\ b \in DOMAIN bp
                  /\ v \in DOMAIN bp[b]
                  /\ module_locals[bp[b][v]] =
                       (CASE IsFloat(ty) /\ Bits(ty) = 32 -> "F32"
                          [] IsFloat(ty) -> "F64"
                          [] Bits(ty) = 32 -> "I32"
                          [] OTHER -> "I64")
             ELSE phase = "panic"

\* an integer comparison the lowering is required to support
RequiredCompare(inst) ==
  \/ inst.opcode = "Icmp" /\ inst.cond \in {"Equal", "NotEqual"}
  \/ inst.opcode = "IcmpImm" /\ inst.cond \in Conds

\* C17: the translation of a comparison of 32 or 64 bit integers with a
\* required predicate does not fail, and emits the left operand, then the
\* right operand or the immediate, then iN.eq / iN.ne / iN.le_u of the
\* operands' width.
C17_CompareLowering ==
  (fn.name = "cmp" /\ phase \notin {"module", "compile"} /\ RequiredCompare(fn.insts[0][3])) =>
    LET inst == fn.insts[0][3]
        w == IF Bits(fn.vtype[0]) = 32 THEN "i32" ELSE "i64"
        const == IF w = "i32" THEN "i32.const" ELSE "i64.const"
        cmp == CASE inst.cond = "Equal" -> IF w = "i32" THEN "i32.eq" ELSE "i64.eq"
                 [] inst.cond = "NotEqual" -> IF w = "i32" THEN "i32.ne" ELSE "i64.ne"
                 [] OTHER -> IF w = "i32" THEN "i32.le_u" ELSE "i64.le_u"
    IN /\ phase # "panic"
       /\ Len(code) >= 3
       /\ SubSeq(code, 1, 3) = <<Op(const, fn.insts[0][1].imm), Op(const, 1), Op(cmp, 0)>>

\* a jump or a return
Unconditional(inst) == inst.fmt = "Jump" \/ inst.opcode = "Return"

\* C18: the walk of a block ends with the first jump or return it lowers:
\* whenever build_from_pos is about to ask for the next instruction and a
\* jump or return is among those it has gone past, none is left to take.
C18_StopsAfterTerminator ==
  (phase = "compile" /\ stack # <<>> /\ Head(stack).k = "bfp") =>
    \A j \in 1..Len(fn.insts[cursor.block]) :
      (j <= cursor.pos /\ Unconditional(fn.insts[cursor.block][j]))
        => cursor.pos >= Len(fn.insts[cursor.block])

\* C19: an edge whose branch mode is LoopContinue(id), of a jump or of a
\* conditional branch, is lowered to a br to the sequence that
\* loop_to_block holds for id, which is there when the edge is reached; the
\* lowering of the edge does not fail.
C19_LoopContinueBranches ==
  AtEdge =>
    LET inst == fn.insts[cursor.block][cursor.pos + 1]
        cbt == Head(stack).cbt
        frames == IF inst.fmt = "Jump" THEN JumpArm(inst, cbt).frames ELSE BranchArm(inst, cbt)
    IN (inst.dest \in DOMAIN cbt.from_relooper
          /\ cbt.from_relooper[inst.dest].m = "LoopContinue") =>
         LET id == cbt.from_relooper[inst.dest].id IN
         /\ id \in DOMAIN loop_to_block
         /\ \A i \in 1..Len(frames) : frames[i].k # "panic"
         /\ \E i \in 1..Len(frames) :
              /\ frames[i].k = "emit"
              /\ \E j \in 1..Len(frames[i].ops) : frames[i].ops[j] = Op("br", loop_to_block[id])

\* the VM has taken the empty then arm that realises a LoopBreak edge: it
\* is at the else that directly follows the if
BreakTaken ==
  /\ phase = "exec"
  /\ vm.status = "running"
  /\ vm.pc \in 2..Len(code)
  /\ code[vm.pc].op = "else"
  /\ code[vm.pc - 1].op = "if"

\* C20: once a LoopBreak edge has been taken at run time, no code emitted
\* inside the loop runs any more: what follows the if / else of the edge is
\* the end of an enclosing sequence, never an op of a later sibling.
C20_LoopBreakExits ==
  BreakTaken =>
    LET q == Closing(code, vm.pc + 1, 0, "end") + 1
    IN q > Len(code) \/ code[q].op = "end"

\* the branch mode from_relooper holds for the destination of the edge the
\* lowering is about to meet ("" when it holds none)
EdgeMode ==
  LET inst == fn.insts[cursor.block][cursor.pos + 1]
      cbt == Head(stack).cbt
  IN IF inst.dest \in DOMAIN cbt.from_relooper THEN cbt.from_relooper[inst.dest].m ELSE ""

\* C21: an edge of kind MergedBranch falls through to the following
\* sibling: for a jump the lowering emits nothing but the argument writes
\* and goes on; for a conditional branch it emits an if / else whose else
\* arm holds the rest of the block; in neither case does it fail.
C21_MergedBranchFallsThrough ==
  (AtEdge /\ EdgeMode = "MergedBranch") =>
    LET inst == fn.insts[cursor.block][cursor.pos + 1]
        cbt == Head(stack).cbt
    IN IF inst.fmt = "Jump"
         THEN inst.dest \notin DOMAIN cbt.locally_computed
                => JumpArm(inst, cbt).frames = EdgeWrites(inst.args, inst.dest)
         ELSE LET frames == BranchRealise(inst, cbt) IN
              /\ \A i \in 1..Len(frames) : frames[i].k # "panic"
              /\ \E i \in 1..Len(frames) : frames[i] = BFP(cbt)

\* C22: every edge looks its destination up in locally_computed first: a
\* destination found there is realised by writing its id to the dispatch
\* local, by a jump and by a conditional branch alike, whatever from_relooper
\* holds for it; a destination in neither map falls through.
C22_LocallyComputedFirst ==
  AtEdge =>
    LET inst == fn.insts[cursor.block][cursor.pos + 1]
        cbt == Head(stack).cbt
        d == inst.dest
    IN IF d \in DOMAIN cbt.locally_computed
         THEN LET write == <<Op("i32.const", d), Op("local.set", cbt.locally_computed[d])>>
              IN IF inst.fmt = "Jump"
                   THEN JumpArm(inst, cbt).frames = EdgeWrites(inst.args, d) \o EMIT(write)
                   ELSE BranchRealise(inst, cbt) = IfElseRest(write, cbt)
         ELSE d \notin DOMAIN cbt.from_relooper =>
                IF inst.fmt = "Jump"
                  THEN JumpArm(inst, cbt).frames = EdgeWrites(inst.args, d)
                  ELSE BranchRealise(inst, cbt) = <<>>

\* C23: the body of every translated function ends with unreachable.
C23_TrailingUnreachable ==
  Translated => (code # <<>> /\ code[Len(code)] = Op("unreachable", 0))

\* the local the guard chain of the Multiple reads: the local.get of the
\* first `local.get; i32.const; i32.eq; if`
DispatchLocal ==
  LET i == CHOOSE i \in 1..(Len(code) - 3) :
             /\ code[i].op = "local.get"
             /\ code[i + 1].op = "i32.const"
             /\ code[i + 2].op = "i32.eq"
             /\ code[i + 3].op = "if"
  IN code[i].a

SlotsOf(F, v) ==
  {s \in UNION {UNION {{<<b, i, k>> : k \in 1..Len(F.insts[b][i].args)}
                         : i \in 1..Len(F.insts[b])} : b \in BlocksOf(F)} :
     F.insts[s[1]][s[2]].args[s[3]] = v}

\* v is the result of an iconst
IsIconst(F, v) ==
  /\ ValueDef(F, v).kind = "Result"
  /\ DefInst(F, v).opcode = "Iconst"

\* C25: once the classifier has run over the function, an instruction-defined
\* value is in rematerialize iff it is the result of an integer constant and
\* some operand slot holds it, and it then has no use count; any other
\* instruction-defined value has a use count equal to the number of operand
\* slots holding it (no entry when there is none); the lookup answers
\* Rematerialise, SingleUse (count at most one) or NormalUse accordingly, and
\* every instruction-defined value handed to the value emitter is held by some
\* operand slot, so that its lookup succeeds.
C25_ClassifierCounts ==
  (phase = "compile" \/ Translated) =>
    /\ \A v \in Values(fn) :
         (\E inst \in AllInsts(fn) : inst.res = v) =>
           LET n == Cardinality(SlotsOf(fn, v))
               t == operand_table
           IN /\ v \in t.rematerialize <=> (IsIconst(fn, v) /\ n >= 1)
              /\ v \in t.rematerialize => v \notin DOMAIN t.value_uses
              /\ ~IsIconst(fn, v) =>
                   IF n = 0 THEN v \notin DOMAIN t.value_uses
                   ELSE v \in DOMAIN t.value_uses /\ t.value_uses[v] = n
              /\ n >= 1 =>
                   Classify(t, v) = (IF IsIconst(fn, v) THEN "Rematerialise"
                                     ELSE IF n <= 1 THEN "SingleUse" ELSE "NormalUse")
    /\ (phase = "compile" /\ stack # <<>> /\ Head(stack).k = "tv"
          /\ ValueDef(fn, Head(stack).v).kind = "Result") =>
         /\ SlotsOf(fn, Head(stack).v) # {}
         /\ Classify(operand_table, Head(stack).v) # "None"

\* the value emitter is handed a value that two operand slots hold and that no
\* constant defines, in a function where a constant is used by two slots too
C25_TwiceUsedEmitted ==
  /\ phase = "compile"
  /\ stack # <<>>
  /\ Head(stack).k = "tv"
  /\ ValueDef(fn, Head(stack).v).kind = "Result"
  /\ ~IsIconst(fn, Head(stack).v)
  /\ Cardinality(SlotsOf(fn, Head(stack).v)) = 2
  /\ Classify(operand_table, Head(stack).v) = "NormalUse"
  /\ \E c \in operand_table.rematerialize : Cardinality(SlotsOf(fn, c)) >= 2

\* C26: the argument writes of an edge are a parallel assignment.  In the
\* loop whose back-edge is jump block1(v4, v3), whenever the emitted function
\* is about to take the back-edge's br, the locals of v3 and v4 hold the two
\* entry values a and b, in one order or the other (checked for the
\* iteration order of block1's parameter map that pairs v4 with v3's local
\* and v3 with v4's local).
C26_ParallelAssignment ==
  (/\ fn.name = "swap"
   /\ Translated
   /\ iter[1] = <<3, 4>>
   /\ vm.status = "running"
   /\ vm.pc \in 1..Len(code)
   /\ code[vm.pc].op = "br") =>
    LET a == fn.insts[0][1].imm
        b == fn.insts[0][2].imm
        p == operand_table.block_params[1]
    IN <<vm.locals[p[3]], vm.locals[p[4]]>> \in {<<a, b>>, <<b, a>>}

\* C27: a reload of a NormalUse value reads what its definition stored.  In
\* the function whose value v2 = iadd v1, v1 is returned by both destinations
\* of a branch, whenever the emitted function is about to execute a local.get
\* of v2's local, that local holds the value of v2, i.e. the local.set that
\* stores v2 has been executed on the path.
C27_ReloadAfterStore ==
  (/\ fn.name = "shared"
   /\ Translated
   /\ vm.status = "running"
   /\ vm.pc \in 1..Len(code)
   /\ 2 \in DOMAIN locals
   /\ code[vm.pc] = Op("local.get", locals[2])) =>
    vm.locals[locals[2]] = WrapAdd(fn.insts[0][2].imm, fn.insts[0][2].imm)

\* C28: a branch on a boolean takes its edge when the condition is false
\* (brz) or true (brnz).  The function branches on v2 = icmp eq a, 1 to block1
\* (which returns 1) and otherwise jumps to block2 (which returns 2): once the
\* emitted function has ended it has returned 1 exactly when brz sees a false
\* v2 or brnz a true one, and 2 otherwise.
C28_BoolBranch ==
  (fn.name = "bool" /\ Translated /\ vm.status \notin {"idle", "running"}) =>
    LET v2 == fn.insts[0][1].imm = 1
        taken == IF fn.insts[0][4].opcode = "Brz" THEN ~v2 ELSE v2
    IN /\ vm.status = "returned"
       /\ vm.result = (IF taken THEN 1 ELSE 2)

\* C29: the negate wrapping of a LoopBreak condition is a logical negation.
\* Whenever the emitted function has just executed the subtraction of
\* `i32.const 0; local.get c; i32.sub`, the difference on top of the operand
\* stack is zero exactly when the condition c is non-zero.
C29_NegateIsNot ==
  (/\ Translated
   /\ vm.status = "running"
   /\ vm.pc \in 4..Len(code)
   /\ code[vm.pc - 1].op = "i32.sub"
   /\ code[vm.pc - 2].op = "local.get"
   /\ code[vm.pc - 3] = Op("i32.const", 0)) =>
    (Head(vm.stack) = 0 <=> vm.locals[code[vm.pc - 2].a] # 0)

\* C30: define_data works for every declared data item.  Once define_data has
\* been called with a Zeros or a Bytes initialiser on an id that declare_data
\* or declare_anonymous_data returned, the call has returned Ok and the
\* module's data is what it was before the call except for the item of that
\* id, which holds `size` zero bytes or the given bytes.
C30_DefineDataSucceeds ==
  (data_call.op = "define_data" /\ data_call.init.kind \in {"Zeros", "Bytes"}) =>
    /\ data_call.ret = "ok"
    /\ data_call.id \in DOMAIN data
    /\ module_data = [data_call.before EXCEPT
                        ![data[data_call.id]] = InitValue(data_call.init)]

====
